---- MODULE Spec2Model ----
(***************************************************************************)
(* The tiered relevance pipeline of the automated knowledge base:          *)
(* collect -> dedup -> Tier 1 bulk scoring -> rank & filter -> Tier 2 deep *)
(* analysis -> save.  The Tier 1 / filter / Tier 2 steps are those of      *)
(* weekly_deep_dive() in docs/AUTOMATED-KNOWLEDGE-BASE.md; the collector's *)
(* deduplication and the persister behind save_deep_dive() are not part of *)
(* the sources and follow the written design.                              *)
(*                                                                         *)
(* A text is represented by its length in characters: slicing and          *)
(* submitting a text are the only things the pipeline does with it.        *)
(***************************************************************************)
EXTENDS Integers, Sequences, FiniteSets, TLC

\* ---------------------------------------------------------------- bounds
MaxItems == 2        \* distinct item ids, and candidates emitted in one run
MaxRuns == 2         \* runs of the pipeline

\* ------------------------------------------------------ program constants
Budget == 15000      \* content[:15000]
DocThreshold == 7    \* r['relevance_score'] >= 7
DocCap == 10         \* [:10]

Ids == 1..MaxItems
Periods == {1, 2}                                     \* two ISO weeks
Scores == {4, 7, 9}                                   \* on the 1-10 scale
ContentLens == {Budget - 1, Budget + 1}               \* lengths of full contents
Thresholds == {DocThreshold}
Caps == {MaxItems - 1, DocCap}                        \* one cap that binds

None == [none |-> TRUE]

Min(a, b) == IF a <= b THEN a ELSE b

Range(s) == {s[i] : i \in 1..Len(s)}

\* ------------------------------------------------------------ Deduplicator
ItemIds(s) == {s[i].id : i \in 1..Len(s)}

DedupNew_noHistory(cs, history) == cs

DedupNew_withhold(cs, history) == <<>>

DedupNew_keepLast(cs, history) ==
    LET kept == {i \in 1..Len(cs) :
                    /\ cs[i].id \notin history
                    /\ \A j \in (i + 1)..Len(cs) : cs[j].id # cs[i].id}
    IN  [k \in 1..Cardinality(kept) |->
            cs[CHOOSE i \in kept : Cardinality({j \in kept : j < i}) = k - 1]]

\* keep the candidates whose id is not in the history, first occurrence only
RECURSIVE DedupNew(_, _)
DedupNew(cs, history) ==
    IF cs = <<>> THEN <<>>
    ELSE LET c == Head(cs)
         IN  IF c.id \in history
             THEN DedupNew(Tail(cs), history)
             ELSE <<c>> \o DedupNew(Tail(cs), history \cup {c.id})

SeenAfter_noWrite(history, new) == history

\* the registry as written at the end of the Deduplicator's stage
SeenAfter(history, new) == history \cup ItemIds(new)

\* ------------------------------------------------------------------ Tier 1
\* {content[:15000]}
Truncate(len) == Min(len, Budget)

\* bulk_results.append({**item, **analysis})
Scored(item, score) == [id |-> item.id, relevance_score |-> score]

\* ----------------------------------------------------------- Rank & Filter
Filter_all(rs, thr) == rs

\* [r for r in bulk_results if r['relevance_score'] >= 7]
Filter(rs, thr) == SelectSeq(rs, LAMBDA r : r.relevance_score >= thr)

\* position of x in the sorted prefix s: after every element whose score is
\* not lower, so that equal scores keep their encounter order
RECURSIVE InsertDesc(_, _)
InsertDesc(x, s) ==
    IF s = <<>> THEN <<x>>
    ELSE IF Head(s).relevance_score >= x.relevance_score
         THEN <<Head(s)>> \o InsertDesc(x, Tail(s))
         ELSE <<x>> \o s

\* sorted(top_items, key=lambda x: x['relevance_score'], reverse=True):
\* a stable sort on the score alone
RECURSIVE SortedDesc(_)
SortedDesc(s) ==
    IF s = <<>> THEN <<>>
    ELSE InsertDesc(s[Len(s)], SortedDesc(SubSeq(s, 1, Len(s) - 1)))

Take_noCap(s, n) == s

\* [:10]
Take(s, n) == SubSeq(s, 1, Min(n, Len(s)))

RankFilter(rs, thr, n) == Take(SortedDesc(Filter(rs, thr)), n)

\* ------------------------------------------------------------------ Tier 2
\* deep_analyze_with_claude submits {content} whole
Tier2Text(len) == len

Analysed_drop(ds, item) == ds

Analysed_twice(ds, item) ==
    ds \o << [id |-> item.id, relevance_score |-> item.relevance_score,
              deep_dive |-> [of |-> item.id]],
             [id |-> item.id, relevance_score |-> item.relevance_score,
              deep_dive |-> [of |-> item.id]] >>

\* deep_results.append({**item, 'deep_dive': deep_analysis})
Analysed(ds, item) ==
    Append(ds, [id |-> item.id, relevance_score |-> item.relevance_score,
                deep_dive |-> [of |-> item.id]])

\* --------------------------------------------------------------- Persister
\* the document of one run period
RunBatch(p, ds) == [week |-> p, processed |-> Len(ds), analyses |-> ds]

PublishReady_any(written, ds) == TRUE

\* the batch is published only once the whole of it is in the temporary file
PublishReady(written, ds) == written = ds

MayPublish_overwrite(store, p) == TRUE

\* a published period is never written again
MayPublish(store, p) == store[p] = None

\* ------------------------------------------------------- failures and exits
\* the sources scout() asks in turn: Tavily, arXiv, YouTube, GitHub
NumAdapters == 4

NoError == [kind |-> "none", at |-> 0]

\* an exception of the given kind, raised at an adapter or at an item id
Failure(kind, at) == [kind |-> kind, at |-> at]

\* Tier 1: fetch_full_content(item) raises, or the answer is not JSON; either
\* way no score is had for the item.  Tier 2: the content is not had, or the
\* analysis call fails
Tier1Failures == {"ScoringFailure"}
Tier2Failures == {"ContentRetrievalFailure", "AnalysisFailure"}

CanFailConfig_late(p) == p \in {"config", "tier1"}

\* os.environ[...] is read where the clients are built, ahead of every call
CanFailConfig(p) == p = "config"

DryCommit_write(store, p) == [store EXCEPT ![p] = RunBatch(p, <<>>)]

\* a dry run commits nothing
DryCommit(store, p) == store

NextIndex_stuck(ds) == 1

\* for item in top_items: the item the loop is at
NextIndex(ds) == Len(ds) + 1

\* exit status of the interpreter: 0 on return, 1 on an uncaught exception
ExitCode(p) == IF p \in {"done", "dry_done"} THEN 0 ELSE 1

VARIABLES
    pc,            \* stage of the run in progress
    runs,          \* runs started so far
    period,        \* period of the run in progress
    threshold,     \* configured threshold
    cap,           \* configured cap
    seen,          \* the seen-id registry
    cands,         \* candidates fetched by the run, in encounter order
    findings,      \* candidates that survived deduplication
    bulk_results,  \* Tier 1 output
    top_items,     \* promoted items
    deep_results,  \* Tier 2 output
    tier1_sent,    \* length of the text of the Tier 1 call in the loop (0: none)
    tier2_sent,    \* length of the text of the Tier 2 call in the loop (0: none)
    tmp,           \* entries written to the temporary file so far
    published,     \* period -> published RunBatch, or None
    lastCands,     \* candidate set of the last completed Deduplicator stage
    repeat,        \* the run's candidate set is that of the stage before it
    adapter,       \* the source scout() asks next
    net,           \* the run has made a network call
    error,         \* the exception that ended the run, or NoError
    attempts,      \* id -> Tier 2 analyses attempted for it by the run
    pubs,          \* batches published by the run
    failed,        \* ids whose Tier 2 analysis failed in a run so far
    analysis,      \* the local of deep_dive() that holds the last analysis
    entry          \* a content entry given to the articles collection

vars == << pc, runs, period, threshold, cap, seen, cands, findings,
           bulk_results, top_items, deep_results, tier1_sent, tier2_sent,
           tmp, published, lastCands, repeat, adapter, net, error,
           attempts, pubs, failed, analysis, entry >>

CandSeqs == UNION { [1..n -> [id : Ids]] : n \in 0..MaxItems }

Init ==
    /\ pc = "idle"
    /\ runs = 0
    /\ period = 1
    /\ threshold \in Thresholds
    /\ cap \in Caps
    /\ seen = {}
    /\ cands = <<>>
    /\ findings = <<>>
    /\ bulk_results = <<>>
    /\ top_items = <<>>
    /\ deep_results = <<>>
    /\ tier1_sent = 0
    /\ tier2_sent = 0
    /\ tmp = <<>>
    /\ published = [p \in Periods |-> None]
    /\ lastCands = {None}
    /\ repeat = FALSE
    /\ adapter = 1
    /\ net = FALSE
    /\ error = NoError
    /\ attempts = [i \in Ids |-> 0]
    /\ pubs = 0
    /\ failed = {}
    /\ analysis = None
    /\ entry = None

\* a run is invoked for a period (the current week, or --week), dry or full
StartRun ==
    /\ pc = "idle"
    /\ runs < MaxRuns
    /\ \E p \in Periods : period' = p
    /\ runs' = runs + 1
    /\ \E dry \in BOOLEAN : pc' = IF dry THEN "dry" ELSE "config"
    /\ UNCHANGED << failed, analysis, entry,
                    threshold, cap, seen, cands, findings, bulk_results,
                    top_items, deep_results, tier1_sent, tier2_sent, tmp,
                    published, lastCands, repeat, adapter, net, error,
                    attempts, pubs >>

\* --dry-run: no API call is made and nothing is committed
DryRun ==
    /\ pc = "dry"
    /\ published' = DryCommit(published, period)
    /\ pc' = "dry_done"
    /\ UNCHANGED << failed, analysis, entry,
                    runs, period, threshold, cap, seen, cands, findings,
                    bulk_results, top_items, deep_results, tier1_sent,
                    tier2_sent, tmp, lastCands, repeat, adapter, net, error,
                    attempts, pubs >>

\* an exception leaves the function, or the process ends: the locals are gone
Unwind ==
    /\ cands' = <<>>
    /\ findings' = <<>>
    /\ bulk_results' = <<>>
    /\ top_items' = <<>>
    /\ deep_results' = <<>>
    /\ tier1_sent' = 0
    /\ tier2_sent' = 0
    /\ repeat' = FALSE
    /\ analysis' = None

\* the clients are built: every credential is present
ConfigOk ==
    /\ pc = "config"
    /\ pc' = "fetch"
    /\ UNCHANGED << failed, analysis, entry,
                    runs, period, threshold, cap, seen, cands, findings,
                    bulk_results, top_items, deep_results, tier1_sent,
                    tier2_sent, tmp, published, lastCands, repeat, adapter,
                    net, error, attempts, pubs >>

\* os.environ[...] raises KeyError for a missing credential
ConfigFail ==
    /\ CanFailConfig(pc)
    /\ error' = Failure("ConfigurationError", 0)
    /\ pc' = "crashed"
    /\ Unwind
    /\ UNCHANGED << failed, entry,
                    runs, period, threshold, cap, seen, tmp, published,
                    lastCands, adapter, net, attempts, pubs >>

\* the next source returns its candidates
Fetch ==
    /\ pc = "fetch"
    /\ adapter <= NumAdapters
    /\ \E cs \in CandSeqs :
          /\ Len(cands) + Len(cs) <= MaxItems
          /\ cands' = cands \o cs
    /\ net' = TRUE
    /\ adapter' = adapter + 1
    /\ pc' = IF adapter = NumAdapters THEN "dedup" ELSE "fetch"
    /\ UNCHANGED << failed, analysis, entry,
                    runs, period, threshold, cap, seen, findings, bulk_results,
                    top_items, deep_results, tier1_sent, tier2_sent, tmp,
                    published, lastCands, repeat, error, attempts, pubs >>

\* the next source raises (timeout, API error, malformed response): nothing
\* in scout() catches it
FetchFail ==
    /\ pc = "fetch"
    /\ adapter <= NumAdapters
    /\ net' = TRUE
    /\ error' = Failure("SourceUnavailable", adapter)
    /\ pc' = "crashed"
    /\ Unwind
    /\ UNCHANGED << failed, entry,
                    runs, period, threshold, cap, seen, tmp, published,
                    lastCands, adapter, attempts, pubs >>

\* the Deduplicator reads the registry, partitions, and writes the registry;
\* the raw candidate list is not read again
Dedup ==
    /\ pc = "dedup"
    /\ findings' = DedupNew(cands, seen)
    /\ seen' = SeenAfter(seen, DedupNew(cands, seen))
    /\ lastCands' = Range(cands)
    /\ repeat' = (lastCands = Range(cands))
    /\ pc' = "tier1"
    /\ cands' = <<>>
    /\ UNCHANGED << failed, analysis, entry,
                    runs, period, threshold, cap, bulk_results,
                    top_items, deep_results, tier1_sent, tier2_sent, tmp,
                    published, adapter, net, error, attempts, pubs >>

\* one iteration of the Tier 1 loop
Tier1Step ==
    /\ pc = "tier1"
    /\ Len(bulk_results) < Len(findings)
    /\ LET item == findings[Len(bulk_results) + 1]
       IN  \E len \in ContentLens, score \in Scores :
              /\ tier1_sent' = Truncate(len)
              /\ bulk_results' = Append(bulk_results, Scored(item, score))
    /\ UNCHANGED << failed, analysis, entry,
                    pc, runs, period, threshold, cap, seen, cands, findings,
                    top_items, deep_results, tier2_sent, tmp, published,
                    lastCands, repeat, adapter, net, error, attempts, pubs >>

\* an iteration of the Tier 1 loop raises: fetch_full_content fails, or
\* json.loads is given text that is not JSON
Tier1Fail ==
    /\ pc = "tier1"
    /\ Len(bulk_results) < Len(findings)
    /\ LET item == findings[Len(bulk_results) + 1]
       IN  \E kind \in Tier1Failures : error' = Failure(kind, item.id)
    /\ pc' = "crashed"
    /\ Unwind
    /\ UNCHANGED << failed, entry,
                    runs, period, threshold, cap, seen, tmp, published,
                    lastCands, adapter, net, attempts, pubs >>

\* step 3: filter to the high-value items, sort, cut
RankStep ==
    /\ pc = "tier1"
    /\ Len(bulk_results) = Len(findings)
    /\ top_items' = RankFilter(bulk_results, threshold, cap)
    /\ tier1_sent' = 0
    /\ pc' = "tier2"
    /\ UNCHANGED << failed, analysis, entry,
                    runs, period, threshold, cap, seen, cands, findings,
                    bulk_results, deep_results, tier2_sent, tmp,
                    published, lastCands, repeat, adapter, net, error,
                    attempts, pubs >>

\* one iteration of the Tier 2 loop
Tier2Step ==
    /\ pc = "tier2"
    /\ Len(deep_results) < Len(top_items)
    /\ LET item == top_items[NextIndex(deep_results)]
       IN  \E len \in ContentLens :
              /\ tier2_sent' = Tier2Text(len)
              /\ deep_results' = Analysed(deep_results, item)
              /\ attempts' = [attempts EXCEPT ![item.id] = @ + 1]
    /\ UNCHANGED << failed, analysis, entry,
                    pc, runs, period, threshold, cap, seen, cands, findings,
                    bulk_results, top_items, tier1_sent, tmp, published,
                    lastCands, repeat, adapter, net, error, pubs >>

\* an iteration of the Tier 2 loop raises: fetch_full_content fails, or the
\* analysis call fails; nothing retries it and nothing catches it
Tier2Fail ==
    /\ pc = "tier2"
    /\ Len(deep_results) < Len(top_items)
    /\ LET item == top_items[NextIndex(deep_results)]
       IN  /\ \E kind \in Tier2Failures : error' = Failure(kind, item.id)
           /\ attempts' = [attempts EXCEPT ![item.id] = @ + 1]
           /\ failed' = failed \cup {item.id}
    /\ pc' = "crashed"
    /\ Unwind
    /\ UNCHANGED << entry,
                    runs, period, threshold, cap, seen, tmp, published,
                    lastCands, adapter, net, pubs >>

\* step 5: save_deep_dive(deep_results) is entered
SaveStart ==
    /\ pc = "tier2"
    /\ Len(deep_results) = Len(top_items)
    /\ pc' = "persist"
    /\ tmp' = <<>>
    /\ tier2_sent' = 0
    /\ UNCHANGED << failed, analysis, entry,
                    runs, period, threshold, cap, seen, cands, findings,
                    bulk_results, top_items, deep_results, tier1_sent,
                    published, lastCands, repeat, adapter, net, error,
                    attempts, pubs >>

\* the persister writes the next entry to the temporary file
WriteTmp ==
    /\ pc = "persist"
    /\ Len(tmp) < Len(deep_results)
    /\ tmp' = Append(tmp, deep_results[Len(tmp) + 1])
    /\ UNCHANGED << failed, analysis, entry,
                    pc, runs, period, threshold, cap, seen, cands, findings,
                    bulk_results, top_items, deep_results, tier1_sent,
                    tier2_sent, published, lastCands, repeat, adapter, net,
                    error, attempts, pubs >>

\* the atomic rename of the temporary file to the period's document
Publish ==
    /\ pc = "persist"
    /\ PublishReady(tmp, deep_results)
    /\ MayPublish(published, period)
    /\ published' = [published EXCEPT ![period] = RunBatch(period, tmp)]
    /\ pubs' = pubs + 1
    /\ tmp' = <<>>
    /\ pc' = "done"
    /\ UNCHANGED << failed, analysis, entry,
                    runs, period, threshold, cap, seen, cands, findings,
                    bulk_results, top_items, deep_results, tier1_sent,
                    tier2_sent, lastCands, repeat, adapter, net, error,
                    attempts >>

\* StorageFailure: the storage refuses a write, or the period is published
StorageFail ==
    /\ pc = "persist"
    /\ tmp' = <<>>
    /\ error' = Failure("StorageFailure", 0)
    /\ pc' = "fatal"
    /\ UNCHANGED << failed, analysis, entry,
                    runs, period, threshold, cap, seen, cands, findings,
                    bulk_results, top_items, deep_results, tier1_sent,
                    tier2_sent, published, lastCands, repeat, adapter, net,
                    attempts, pubs >>

\* the memory of a process that has ended
ClearMemory ==
    /\ Unwind
    /\ adapter' = 1
    /\ net' = FALSE
    /\ error' = NoError
    /\ attempts' = [i \in Ids |-> 0]
    /\ pubs' = 0

\* the process is killed; a temporary file it was writing is left behind
Kill ==
    /\ pc \in {"fetch", "dedup", "tier1", "tier2", "persist"}
    /\ pc' = "killed"
    /\ ClearMemory
    /\ UNCHANGED << failed, entry,
                    runs, period, threshold, cap, seen, tmp, published,
                    lastCands >>

\* the process exits, with ExitCode(pc)
Exit ==
    /\ pc \in {"done", "fatal", "crashed", "dry_done"}
    /\ pc' = "idle"
    /\ ClearMemory
    /\ UNCHANGED << failed, entry,
                    runs, period, threshold, cap, seen, tmp, published,
                    lastCands >>

\* the workspace of a killed job is discarded with its runner
Reap ==
    /\ pc = "killed"
    /\ pc' = "idle"
    /\ tmp' = <<>>
    /\ UNCHANGED << failed, analysis, entry,
                    runs, period, threshold, cap, seen, cands, findings,
                    bulk_results, top_items, deep_results, tier1_sent,
                    tier2_sent, published, lastCands, repeat, adapter, net,
                    error, attempts, pubs >>

Next ==
    \/ StartRun
    \/ DryRun
    \/ ConfigOk
    \/ ConfigFail
    \/ Fetch
    \/ FetchFail
    \/ Dedup
    \/ Tier1Step
    \/ Tier1Fail
    \/ RankStep
    \/ Tier2Step
    \/ Tier2Fail
    \/ SaveStart
    \/ WriteTmp
    \/ Publish
    \/ StorageFail
    \/ Kill
    \/ Exit
    \/ Reap

Spec == Init /\ [][Next]_vars

\* ------------------------------------------- the Deduplicator on its inputs
\* candidates as the sources emit them, each with its place in the fixed
\* order in which scout() asks its sources; a source may emit an id twice
MaxEmitted == MaxItems + 2

EmittedSeqs ==
    UNION { { [i \in 1..n |-> [id |-> f[i], pos |-> i]] : f \in [1..n -> Ids] } :
            n \in 0..MaxEmitted }

\* scout() has asked its sources and is about to deduplicate
InitDedup ==
    /\ pc = "dedup"
    /\ runs = 1
    /\ period = 1
    /\ threshold = DocThreshold
    /\ cap = DocCap
    /\ seen \in SUBSET Ids
    /\ cands \in EmittedSeqs
    /\ findings = <<>>
    /\ bulk_results = <<>>
    /\ top_items = <<>>
    /\ deep_results = <<>>
    /\ tier1_sent = 0
    /\ tier2_sent = 0
    /\ tmp = <<>>
    /\ published = [p \in Periods |-> None]
    /\ lastCands = {None}
    /\ repeat = FALSE
    /\ adapter = NumAdapters + 1
    /\ net = TRUE
    /\ error = NoError
    /\ attempts = [i \in Ids |-> 0]
    /\ pubs = 0
    /\ failed = {}
    /\ analysis = None
    /\ entry = None

SpecDedup == InitDedup /\ [][Dedup]_vars

\* -------------------------------------------- Tier 1 on the scout's findings
\* scores are counted in hundredths of a point: the scout writes 0.94 and
\* 0.87, the Tier 1 prompt asks for 1-10 and the filter compares with 7
Hundredths == 100

ScoutScores == {87, 94}

ScoreLow == 1 * Hundredths

ScoreHigh == 10 * Hundredths

\* what json.loads may hand back: a score inside the asked range, one below
\* it, one above it, or an object without the key
RawScores == {0, 4 * Hundredths, DocThreshold * Hundredths, 11 * Hundredths}

RawAnswers ==
    { [summary |-> "s"] } \cup
    { [summary |-> "s", relevance_score |-> r] : r \in RawScores }

\* {**item, **analysis}: the keys of both, the analysis winning
Merge(item, answer) ==
    [k \in DOMAIN item \cup DOMAIN answer |->
        IF k \in DOMAIN answer THEN answer[k] ELSE item[k]]

ScoutFindings ==
    UNION { { f \in [1..n -> [id : Ids, relevance_score : ScoutScores]] :
                \A i \in 1..n, j \in 1..n : i # j => f[i].id # f[j].id } :
            n \in 0..MaxItems }

\* weekly_deep_dive has collected the week's findings
InitScore ==
    /\ pc = "tier1"
    /\ runs = 1
    /\ period = 1
    /\ threshold = DocThreshold * Hundredths
    /\ cap = DocCap
    /\ seen = {}
    /\ cands = <<>>
    /\ findings \in ScoutFindings
    /\ bulk_results = <<>>
    /\ top_items = <<>>
    /\ deep_results = <<>>
    /\ tier1_sent = 0
    /\ tier2_sent = 0
    /\ tmp = <<>>
    /\ published = [p \in Periods |-> None]
    /\ lastCands = {None}
    /\ repeat = FALSE
    /\ adapter = NumAdapters + 1
    /\ net = TRUE
    /\ error = NoError
    /\ attempts = [i \in Ids |-> 0]
    /\ pubs = 0
    /\ failed = {}
    /\ analysis = None
    /\ entry = None

\* one iteration of the Tier 1 loop, the answer taken as it was parsed
Tier1Raw ==
    /\ pc = "tier1"
    /\ Len(bulk_results) < Len(findings)
    /\ LET item == findings[Len(bulk_results) + 1]
       IN  \E len \in ContentLens, answer \in RawAnswers :
              /\ tier1_sent' = Truncate(len)
              /\ bulk_results' = Append(bulk_results, Merge(item, answer))
    /\ UNCHANGED << failed, analysis, entry,
                    pc, runs, period, threshold, cap, seen, cands, findings,
                    top_items, deep_results, tier2_sent, tmp, published,
                    lastCands, repeat, adapter, net, error, attempts, pubs >>

SpecScore == InitScore /\ [][Tier1Raw \/ RankStep]_vars

\* ------------------------------------------------ deep_dive(), by item type
\* the types deep_dive() has a branch for
Branches == {"paper", "video", "article"}

\* the types an item can carry: those of the branches and those of the
\* sources scout() asks (web search, repositories, feeds)
ItemTypes == Branches \cup {"search", "repo", "feed"}

\* rank_for_deep_dive(week_findings, limit=10): distinct items, any types
RankedItems ==
    UNION { { f \in [1..n -> [id : Ids, type : ItemTypes]] :
                \A i \in 1..n, j \in 1..n : i # j => f[i].id # f[j].id } :
            n \in 0..MaxItems }

\* deep_dive() is about to enter its loop; analyses is deep_results, and the
\* local variable analysis is not bound yet
InitDeepDive ==
    /\ pc = "deep_dive"
    /\ runs = 1
    /\ period = 1
    /\ threshold = DocThreshold
    /\ cap = DocCap
    /\ seen = {}
    /\ cands = <<>>
    /\ findings = <<>>
    /\ bulk_results = <<>>
    /\ top_items \in RankedItems
    /\ deep_results = <<>>
    /\ tier1_sent = 0
    /\ tier2_sent = 0
    /\ tmp = <<>>
    /\ published = [p \in Periods |-> None]
    /\ lastCands = {None}
    /\ repeat = FALSE
    /\ adapter = NumAdapters + 1
    /\ net = TRUE
    /\ error = NoError
    /\ attempts = [i \in Ids |-> 0]
    /\ pubs = 0
    /\ failed = {}
    /\ analysis = None
    /\ entry = None

\* one iteration: a branch binds analysis to the item's own analysis, no
\* branch leaves it as the iteration before left it; then it is appended
AnalyzeItem ==
    /\ pc = "deep_dive"
    /\ Len(deep_results) < Len(top_items)
    /\ LET item == top_items[Len(deep_results) + 1]
       IN  /\ item.type \in Branches \/ analysis # None
           /\ analysis' = IF item.type \in Branches
                          THEN [of |-> item.id]
                          ELSE analysis
           /\ deep_results' = Append(deep_results, analysis')
    /\ UNCHANGED << failed, entry,
                    pc, runs, period, threshold, cap, seen, cands, findings,
                    bulk_results, top_items, tier1_sent, tier2_sent, tmp,
                    published, lastCands, repeat, adapter, net, error,
                    attempts, pubs >>

\* no branch matches and analysis was never bound: analyses.append(analysis)
\* raises UnboundLocalError, which nothing catches
AnalyzeUnbound ==
    /\ pc = "deep_dive"
    /\ Len(deep_results) < Len(top_items)
    /\ LET item == top_items[Len(deep_results) + 1]
       IN  /\ item.type \notin Branches
           /\ analysis = None
           /\ error' = Failure("UnboundLocalError", item.id)
    /\ pc' = "crashed"
    /\ Unwind
    /\ UNCHANGED << failed, entry,
                    runs, period, threshold, cap, seen, tmp, published,
                    lastCands, adapter, net, attempts, pubs >>

\* save_deep_dive(analyses) is called with what the loop collected
SaveAnalyses ==
    /\ pc = "deep_dive"
    /\ Len(deep_results) = Len(top_items)
    /\ pc' = "persist"
    /\ tmp' = <<>>
    /\ UNCHANGED << failed, analysis, entry,
                    runs, period, threshold, cap, seen, cands, findings,
                    bulk_results, top_items, deep_results, tier1_sent,
                    tier2_sent, published, lastCands, repeat, adapter, net,
                    error, attempts, pubs >>

SpecDeepDive ==
    InitDeepDive /\ [][AnalyzeItem \/ AnalyzeUnbound \/ SaveAnalyses]_vars

\* ------------------------------------------ the articles content collection
\* a frontmatter value is described by its kind and, where the schema looks
\* at it, its content
Digits == {"0", "1", "2", "3", "4", "5", "6", "7", "8", "9"}

IsoDate == <<"2", "0", "2", "5", "-", "0", "1", "-", "3", "1">>

Subst(s, i, c) == [s EXCEPT ![i] = c]

\* a well-formed date and strings that differ from it in one place, in
\* length, or at an end
DateStrings ==
    {IsoDate, <<>>, SubSeq(IsoDate, 1, Len(IsoDate) - 1), IsoDate \o <<"0">>,
     <<"x">> \o IsoDate, IsoDate \o <<"\n">>}
    \cup {Subst(IsoDate, i, "x") : i \in 1..Len(IsoDate)}
    \cup {Subst(IsoDate, i, "-") : i \in {1, 6}}
    \cup {Subst(IsoDate, i, "7") : i \in {5, 8}}

StringKinds == {"string", "number", "absent"}

DateValues ==
    {[kind |-> "string", chars |-> cs] : cs \in DateStrings}
    \cup {[kind |-> "number", chars |-> <<>>], [kind |-> "absent", chars |-> <<>>]}

TypeValues ==
    {[kind |-> "string", text |-> t] : t \in {"topic", "article", "other"}}
    \cup {[kind |-> "absent", text |-> ""]}

UrlValues ==
    {[kind |-> "string", url |-> u] : u \in BOOLEAN}
    \cup {[kind |-> "absent", url |-> FALSE]}

TagsValues ==
    {[kind |-> "array", elems |-> es] : es \in {<<"string">>, <<"number">>}}
    \cup {[kind |-> "number", elems |-> <<>>], [kind |-> "absent", elems |-> <<>>]}

FeaturedValues ==
    {[kind |-> "boolean", val |-> b] : b \in BOOLEAN}
    \cup {[kind |-> "string", val |-> FALSE], [kind |-> "absent", val |-> FALSE]}

Frontmatters ==
    [title : StringKinds, description : StringKinds, category : StringKinds,
     date : DateValues, type : TypeValues, source_url : UrlValues,
     shared_by : {"string", "absent"}, tags : TagsValues,
     featured : FeaturedValues]

MatchesDate_prefix(cs) ==
    /\ Len(cs) >= 10
    /\ \A i \in 1..10 : IF i \in {5, 8} THEN cs[i] = "-" ELSE cs[i] \in Digits

\* /^\d{4}-\d{2}-\d{2}$/
MatchesDate(cs) ==
    /\ Len(cs) = 10
    /\ \A i \in 1..10 : IF i \in {5, 8} THEN cs[i] = "-" ELSE cs[i] \in Digits

\* z.object({...}): every field passes its own check
Schema(e) ==
    /\ e.title = "string"
    /\ e.description = "string"
    /\ e.category = "string"
    /\ e.date.kind = "string" /\ MatchesDate(e.date.chars)
    /\ e.type.kind = "string" /\ e.type.text \in {"topic", "article"}
    /\ e.source_url.kind = "absent" \/ (e.source_url.kind = "string" /\ e.source_url.url)
    /\ e.shared_by \in {"string", "absent"}
    /\ \/ e.tags.kind = "absent"
       \/ e.tags.kind = "array" /\ \A i \in 1..Len(e.tags.elems) : e.tags.elems[i] = "string"
    /\ e.featured.kind \in {"boolean", "absent"}

\* the parsed entry: the defaults fill what was omitted
Parse(e) ==
    IF Schema(e)
    THEN [ok |-> TRUE,
          tags |-> IF e.tags.kind = "absent" THEN <<>> ELSE e.tags.elems,
          featured |-> IF e.featured.kind = "absent" THEN FALSE ELSE e.featured.val]
    ELSE [ok |-> FALSE, tags |-> <<>>, featured |-> FALSE]

\* an entry of the collection is about to be validated
InitArticles ==
    /\ pc = "parse"
    /\ entry \in [in : Frontmatters, out : {None}]
    /\ runs = 0
    /\ period = 1
    /\ threshold = DocThreshold
    /\ cap = DocCap
    /\ seen = {}
    /\ cands = <<>>
    /\ findings = <<>>
    /\ bulk_results = <<>>
    /\ top_items = <<>>
    /\ deep_results = <<>>
    /\ tier1_sent = 0
    /\ tier2_sent = 0
    /\ tmp = <<>>
    /\ published = [p \in Periods |-> None]
    /\ lastCands = {None}
    /\ repeat = FALSE
    /\ adapter = 1
    /\ net = FALSE
    /\ error = NoError
    /\ attempts = [i \in Ids |-> 0]
    /\ pubs = 0
    /\ failed = {}
    /\ analysis = None

ParseEntry ==
    /\ pc = "parse"
    /\ entry' = [entry EXCEPT !.out = Parse(entry.in)]
    /\ pc' = "parsed"
    /\ UNCHANGED << failed, analysis,
                    runs, period, threshold, cap, seen, cands, findings,
                    bulk_results, top_items, deep_results, tier1_sent,
                    tier2_sent, tmp, published, lastCands, repeat, adapter,
                    net, error, attempts, pubs >>

SpecArticles == InitArticles /\ [][ParseEntry]_vars

\* ------------------------------------------------------------------ claims
PostDedup == {"tier1", "tier2", "persist", "done", "fatal"}
PostRank == {"tier2", "persist", "done", "fatal"}

\* the ranking the design asks for: descending score, equal scores by
\* ascending id
Precedes(a, b) ==
    \/ a.relevance_score > b.relevance_score
    \/ a.relevance_score = b.relevance_score /\ a.id < b.id

RECURSIVE InsertRanked(_, _)
InsertRanked(x, s) ==
    IF s = <<>> THEN <<x>>
    ELSE IF Precedes(x, Head(s))
         THEN <<x>> \o s
         ELSE <<Head(s)>> \o InsertRanked(x, Tail(s))

RECURSIVE Ranked(_)
Ranked(s) ==
    IF s = <<>> THEN <<>>
    ELSE InsertRanked(Head(s), Ranked(Tail(s)))

Reorderings(s) ==
    { [i \in 1..Len(s) |-> s[f[i]]] : f \in Permutations(1..Len(s)) }

Entries(b) == b.analyses

WithAnalysis(b) == {i \in 1..Len(Entries(b)) : Entries(b)[i].deep_dive # None}

AtOrAbove(rs, thr) == SelectSeq(rs, LAMBDA r : r.relevance_score >= thr)

\* C1: the promoted list is exactly the items scored at or above the
\* threshold, by descending score with equal scores by ascending id, cut to
\* the first cap items.
C1_RankFilterContract ==
    pc \in PostRank =>
        top_items = SubSeq(Ranked(AtOrAbove(bulk_results, threshold)), 1,
                           Min(cap, Len(AtOrAbove(bulk_results, threshold))))

\* C2: every reordering of the scored items gives the same promoted list.
C2_OrderInvariant ==
    pc \in PostRank =>
        \A rs \in Reorderings(bulk_results) :
            RankFilter(rs, threshold, cap) = top_items

C4_CapRespected ==
    \A p \in Periods :
        published[p] # None => Cardinality(WithAnalysis(published[p])) <= cap

C4_Witness ==
    /\ pc = "done"
    /\ Len(AtOrAbove(bulk_results, threshold)) > cap
    /\ Cardinality(WithAnalysis(published[period])) = cap

\* C5: every analysed item of a published batch, and every item handed to
\* Tier 2, is scored at or above the threshold.
C5_AnalysisOnlyAboveThreshold ==
    /\ \A p \in Periods :
          published[p] # None =>
              \A i \in WithAnalysis(published[p]) :
                  Entries(published[p])[i].relevance_score >= threshold
    /\ \A i \in 1..Len(top_items) : top_items[i].relevance_score >= threshold

C5_Witness ==
    /\ pc = "done"
    /\ \E i \in 1..Len(bulk_results) :
          bulk_results[i].relevance_score < threshold
    /\ WithAnalysis(published[period]) # {}

\* C6: no text submitted to Tier 1 or to Tier 2 is longer than the budget.
C6_TruncationBound ==
    /\ tier1_sent <= Budget
    /\ tier2_sent <= Budget

\* C7: a period's published batch changes only by the publish step of the
\* run for that period, and becomes the whole assembled batch of that run;
\* a kill or storage failure leaves the published batches as they were.
C7_AtomicPublish ==
    [][\A p \in Periods :
          published'[p] # published[p] =>
              /\ pc = "persist"
              /\ pc' = "done"
              /\ p = period
              /\ Len(deep_results) = Len(top_items)
              /\ published'[p] = RunBatch(p, deep_results)]_vars

C7_Witness ==
    /\ pc = "killed"
    /\ tmp # <<>>
    /\ published[period] = None

\* C8: a batch, once published, is still there and unchanged after every
\* step of every later run.
C8_AppendOnly ==
    [][\A p \in Periods :
          published[p] # None => published'[p] = published[p]]_vars

C8_Witness ==
    /\ pc = "fatal"
    /\ runs >= 2
    /\ published[period] # None
    /\ Entries(published[period]) # deep_results

\* C9: a Deduplicator stage given the candidate set of the stage before it
\* yields no new item.
C9_DedupIdempotent ==
    (pc \in PostDedup /\ repeat) => findings = <<>>

C9_Witness ==
    /\ pc = "tier1"
    /\ repeat
    /\ lastCands # {}

\* a run has ended of its own accord (a dry run ends in "dry_done")
Ended == {"done", "fatal", "crashed"}

\* the two categories that are fatal for a run
FatalKinds == {"StorageFailure", "ConfigurationError"}

\* C11: every run ends in exactly one of two outcomes: it completes, having
\* published exactly one new RunBatch, or it is fatal (StorageFailure or
\* ConfigurationError), having published none
C11_TwoOutcomes ==
    pc \in Ended =>
        \/ error = NoError /\ pubs = 1
        \/ error.kind \in FatalKinds /\ pubs = 0

\* C12: Tier 1 is total: a run leaves Tier 1 (other than by being killed)
\* only with exactly one ScoredItem for every candidate that survived
\* deduplication, also when a scoring call failed
C12_Tier1Total ==
    [][(pc = "tier1" /\ pc' # "tier1" /\ pc' # "killed") =>
          \A i \in 1..Len(findings) :
              Cardinality({j \in 1..Len(bulk_results) :
                              bulk_results[j].id = findings[i].id}) = 1]_vars

\* C13: an item whose Tier 1 answer is malformed is kept as a ScoredItem
\* with score 0 and scoringFailed set, and the run goes on
C13_MalformedScoreKept ==
    [][error'.kind = "ScoringFailure" =>
          /\ pc' = "tier1"
          /\ \E j \in 1..Len(bulk_results') :
                /\ bulk_results'[j].id = error'.at
                /\ bulk_results'[j].relevance_score = 0
                /\ "scoringFailed" \in DOMAIN bulk_results'[j]]_vars

\* C14: a source that fails contributes nothing and does not abort the run:
\* the sources after it are still asked
C14_AdapterFailureIsolated ==
    error.kind = "SourceUnavailable" =>
        /\ pc # "crashed"
        /\ adapter > error.at

\* C15: a promoted item whose retrieval or analysis fails on the first
\* attempt and on the retry is recorded as failed, and the run is not aborted
C15_FailedAnalysisRecorded ==
    (error.kind \in Tier2Failures /\ attempts[error.at] > 0) =>
        /\ pc # "crashed"
        /\ attempts[error.at] = 2

\* C16: a run that completes exits with 0; a run exits with another code
\* only after a StorageFailure or a ConfigurationError
C16_ExitCode ==
    pc \in Ended =>
        /\ pubs = 1 => ExitCode(pc) = 0
        /\ ExitCode(pc) # 0 => error.kind \in FatalKinds

IdsOf(s) == [i \in 1..Len(s) |-> s[i].id]

\* C19: the items of the published batch and their order are the same for
\* every order in which the scored items of the run could have come in
C19_BatchOrderIndependent ==
    pc = "done" =>
        \A rs \in Reorderings(bulk_results) :
            IdsOf(RankFilter(rs, threshold, cap))
                = IdsOf(Entries(published[period]))

\* C20: in a run no item's analysis is attempted more than twice, and an
\* item that has been analysed is not attempted again
C20_AttemptsBounded ==
    [][\A id \in Ids :
          /\ attempts'[id] <= 2
          /\ (id \in ItemIds(deep_results) => attempts'[id] <= attempts[id])
      ]_vars

\* the Tier 2 loop has analysed one item and is at the next one
C20_Witness ==
    /\ pc = "tier2"
    /\ Len(deep_results) < Len(top_items)
    /\ \E id \in ItemIds(deep_results) : attempts[id] = 1

C22_TimeoutPersistsPartial ==
    [][(pc' = "killed" /\ deep_results # <<>> /\ published[period] = None) =>
          /\ published'[period] # None
          /\ Entries(published'[period]) = deep_results
          /\ "partial" \in DOMAIN published'[period]]_vars

\* C24: the Deduplicator lets through exactly the ids that are not in the
\* history, and Tier 1 scores exactly the items it let through
C24_DedupExact ==
    [][((pc = "dedup" /\ pc' = "tier1") =>
           ItemIds(findings') = ItemIds(cands) \ seen)
       /\ ((pc = "tier1" /\ pc' = "tier2") =>
              /\ Len(bulk_results) = Len(findings)
              /\ ItemIds(bulk_results) = ItemIds(findings))
      ]_vars

\* of the candidates of the run one was in the history and one was new, and
\* Tier 1 has scored the new one
C24_Witness ==
    /\ pc = "tier2"
    /\ findings # <<>>
    /\ Cardinality(lastCands) > Len(findings)
    /\ Len(bulk_results) = Len(findings)

\* C25: of the candidates with an id that is not in the history, the
\* Deduplicator keeps exactly one, the one that was emitted first
C25_FirstKept ==
    [][(pc = "dedup" /\ pc' = "tier1") =>
          \A id \in ItemIds(cands) \ seen :
              LET first == CHOOSE i \in 1..Len(cands) :
                              /\ cands[i].id = id
                              /\ \A j \in 1..(i - 1) : cands[j].id # id
              IN  /\ Cardinality({k \in 1..Len(findings') :
                                     findings'[k].id = id}) = 1
                  /\ \E k \in 1..Len(findings') : findings'[k] = cands[first]
      ]_vars

\* an id was emitted twice and the earlier of the two is among the new items
C25_Witness ==
    /\ pc = "tier1"
    /\ \E a \in lastCands, b \in lastCands :
          /\ a.id = b.id
          /\ a.pos < b.pos
          /\ a \in Range(findings)

\* C26: a run in which a source failed still ends with a stored batch, made
\* after every source was asked, so that its count of checked sources is the
\* number of sources that answered
C26_SourcesCheckedCounted ==
    (pc \in Ended /\ error.kind = "SourceUnavailable") =>
        /\ pubs = 1
        /\ adapter = NumAdapters + 1

\* C27: every score held after Tier 1 or promoted by Rank & Filter lies in
\* the range the prompt declares, whatever the classifier answered and
\* whatever score the item carried from the scout
C27_ScoresInRange ==
    \A r \in Range(bulk_results) \cup Range(top_items) :
        /\ r.relevance_score >= ScoreLow
        /\ r.relevance_score <= ScoreHigh

Running == {"dry", "config", "fetch", "dedup", "tier1", "tier2", "persist"}

\* the steps the program itself takes while it runs
ProgramStep ==
    \/ DryRun
    \/ ConfigOk
    \/ ConfigFail
    \/ Fetch
    \/ FetchFail
    \/ Dedup
    \/ Tier1Step
    \/ Tier1Fail
    \/ RankStep
    \/ Tier2Step
    \/ Tier2Fail
    \/ SaveStart
    \/ WriteTmp
    \/ Publish
    \/ StorageFail

\* an upper bound on the number of steps a run has left
Measure ==
    CASE pc = "persist" -> 1 + Len(deep_results) - Len(tmp)
      [] pc = "tier2"   -> 2 + 2 * Len(top_items) - Len(deep_results)
      [] pc = "tier1"   -> 3 + 3 * Len(findings) - Len(bulk_results)
      [] pc = "dedup"   -> 4 + 3 * Len(cands)
      [] pc = "fetch"   -> 5 + 3 * MaxItems + NumAdapters - adapter
      [] pc = "config"  -> 5 + 3 * MaxItems + NumAdapters
      [] pc = "dry"     -> 1
      [] OTHER          -> 0

\* C28: a run terminates: while it runs it can always take a step, and every
\* step, successful or failing, lowers a natural-number bound on the steps
\* that are left, so that it has ended after finitely many calls
C28_RunTerminates ==
    [][(pc \in Running) =>
          /\ ENABLED ProgramStep
          /\ Measure >= 0
          /\ Measure' >= 0
          /\ Measure' < Measure
      ]_vars

\* a run that found as many items as a run can, scored them, analysed some
\* and has ended
C28_Witness ==
    /\ pc = "done"
    /\ Len(findings) = MaxItems
    /\ Len(bulk_results) = MaxItems
    /\ deep_results # <<>>

\* C29: the deep-dive loop records one analysis for every promoted item, of
\* whatever type, in the item's place and made from that item; it does not
\* stop at an item that no branch matches
C29_OwnAnalysis ==
    /\ pc # "crashed"
    /\ (pc = "deep_dive" \/ pc = "persist") =>
          /\ Len(deep_results) <= Len(top_items)
          /\ \A i \in 1..Len(deep_results) :
                deep_results[i].of = top_items[i].id
    /\ pc = "persist" => Len(deep_results) = Len(top_items)

\* four digits, a hyphen, two digits, a hyphen, two digits, and nothing else
IsoShape(cs) ==
    /\ Len(cs) = 10
    /\ {cs[i] : i \in {1, 2, 3, 4, 6, 7, 9, 10}} \subseteq Digits
    /\ cs[5] = "-"
    /\ cs[8] = "-"

\* C30: an entry is accepted only if its date has the shape dddd-dd-dd, its
\* type is 'topic' or 'article' and its title, description and category are
\* strings; an accepted entry without tags has tags = [], and one without
\* featured has featured = false
C30_ArticlesSchema ==
    (pc = "parsed" /\ entry.out.ok) =>
        /\ entry.in.date.kind = "string"
        /\ IsoShape(entry.in.date.chars)
        /\ entry.in.type.kind = "string"
        /\ entry.in.type.text \in {"topic", "article"}
        /\ entry.in.title = "string"
        /\ entry.in.description = "string"
        /\ entry.in.category = "string"
        /\ entry.in.tags.kind = "absent" => entry.out.tags = <<>>
        /\ entry.in.featured.kind = "absent" => entry.out.featured = FALSE

\* an entry without tags and without featured was accepted
C30_Witness ==
    /\ pc = "parsed"
    /\ entry.out.ok
    /\ entry.in.tags.kind = "absent"
    /\ entry.in.featured.kind = "absent"

====
